---- MODULE Spec2Model ----
(***************************************************************************)
(* Flashy Flesh ESP32 firmware (firmware/main.ino): the device control     *)
(* state engine.  MachineState, the consent gate, the emergency stop, the  *)
(* session timer with its fade-out, the strobe timer interrupt and the     *)
(* web handlers, as one state machine whose steps are the statements of    *)
(* loop() and the interrupt service routine.                               *)
(*                                                                         *)
(* Units.  The firmware computes in float; the model computes in integers: *)
(*   strobe_hz        tenths of a hertz      (0.5 Hz is 5, 4.0 Hz is 40)   *)
(*   disk*_rpm        hundredths of an rpm   (10.6 rpm is 1060)            *)
(*   strobe_int,                                                           *)
(*   led_bright       hundredths             (0.6 is 60, 1.0 is 100)       *)
(*   time             milliseconds, as millis() returns it                 *)
(*   timer period     microseconds                                         *)
(* Every float expression of the firmware that the model evaluates was     *)
(* compared with its integer counterpart on the values the explored runs   *)
(* reach (the presets, the elapsed times of ClockValues); where IEEE       *)
(* rounding makes the two differ the definition says so.                   *)
(***************************************************************************)
EXTENDS Integers, Sequences, FiniteSets, TLC

\* ---- Pin assignments (main.ino 28-52) -----------------------------------
MOTOR1_PWM == 25
MOTOR1_DIR == 26
MOTOR2_PWM == 27
MOTOR2_DIR == 14
MOTOR3_PWM == 12
MOTOR3_DIR == 13
SPOT_R_PIN == 4
SPOT_G_PIN == 16
SPOT_B_PIN == 17
\* ledcWrite(0, ...): the strobe's PWM channel, the literal 0 of the source.
STROBE_CH == 0

\* ---- Safety constants (main.ino 59-62) ----------------------------------
\* 4.0 Hz, in tenths of a hertz.
STROBE_MAX_HZ == 40
SESSION_MAX_S == 660
FADE_OUT_S == 120
\* held >= 3000 in checkConsentButton.
CONSENT_HOLD_MS == 3000
\* delay(20) of the consent loop and of loop(); delay(10) of the strobe
\* pulse; delay(10) of the emergency stop's debounce loop.
POLL_MS == 20
LOOP_DELAY_MS == 20
PULSE_MS == 10

\* ---- Bounds of the exploration ------------------------------------------
\* No clock reading beyond MaxNow is explored.
MaxNow == 680000
\* At most this many consecutive early-released consent presses.
MaxShortPresses == 2

\* millis() at the end of a loop iteration's delay(20): the instants the
\* explored runs sample.  With a first consent completed at 3000 they give
\* the elapsed session times 540 s (last second without fade), 600 s (half
\* faded), 660 s (fully faded, still active), 660.5 s, 661 s (cutoff) and
\* later ones.
ClockValues == {0, 543000, 603000, 663000, 663500, 664000, 670000}

\* How long the consent button stays LOW once checkConsentButton has seen it
\* LOW: it reads LOW at every poll up to and including this many
\* milliseconds after the first read.
HoldMs == {2999, 3000}

\* How long checkEmergencyStop's debounce loop waits for both buttons to be
\* released (a multiple of its delay(10)).
DebounceMs == {0, 200}

\* The "name" of a POST /preset body; NoName is a body without the key.
NoName == "<no name>"
PresetBodies == {"gamma_flash", "integration", "warp_nine", NoName}

\* Requested strobe frequencies (tenths of a hertz) for the specification
\* that starts from an arbitrary MachineState: -5 Hz, 0, 0.5 Hz, the
\* ceiling, just above it, 9 Hz and 1e8 Hz.
HzInputs == {-50, 0, 5, 40, 41, 90, 1000000000}

VARIABLES
  state,          \* struct MachineState
  strobe_pulse,   \* volatile bool strobe_pulse
  hw,             \* what the firmware last wrote to each peripheral
  response,       \* what server.handleClient() sent in this iteration, until loop() goes on
  now,            \* millis()
  pc,             \* the statement of loop() that runs next
  enc,            \* levels of ENC1_BTN and ENC2_BTN (INPUT_PULLUP: LOW is pressed)
  short_presses,  \* history: consecutive presses released before the hold completed
  active_since    \* history: millis() when active last went from false to true

vars == <<state, strobe_pulse, hw, response, now, pc, enc,
          short_presses, active_since>>

\* ---- Arduino helpers -----------------------------------------------------
\* min without its cap: the first argument whatever the second.
min_uncapped(a, b) == a

\* min(a, b), the Arduino macro, as used at main.ino 100 and 142.
min(a, b) == IF a < b THEN a ELSE b

abs(x) == IF x > 0 THEN x ELSE -x

constrain(x, lo, hi) == IF x < lo THEN lo ELSE IF x > hi THEN hi ELSE x

\* ---- struct MachineState (main.ino 69-83) --------------------------------
MachineState0 ==
  [ disk1_rpm |-> 0, disk2_rpm |-> 0, disk3_rpm |-> 0,
    strobe_hz |-> 0, strobe_int |-> 0,
    spot_r |-> 0, spot_g |-> 0, spot_b |-> 0,
    led_bright |-> 100,
    active |-> FALSE, consent |-> FALSE,
    session_start |-> 0,
    preset_name |-> "idle" ]

\* The peripherals after setup(): every LEDC channel at duty 0, the
\* direction pins low, FastLED at brightness 0 and black, the strobe timer
\* created but its alarm not yet enabled, the consent LED dark.  ledc is
\* indexed by the first argument the source passes to ledcWrite: 0 for the
\* strobe, the pin macros for the motors and the spotlights.
LedcArgs == {STROBE_CH, MOTOR1_PWM, MOTOR2_PWM, MOTOR3_PWM,
             SPOT_R_PIN, SPOT_G_PIN, SPOT_B_PIN}
DirPins == {MOTOR1_DIR, MOTOR2_DIR, MOTOR3_DIR}

Hardware0 ==
  [ ledc |-> [c \in LedcArgs |-> 0],
    dir |-> [p \in DirPins |-> "LOW"],
    fastled_brightness |-> 0,
    leds |-> "Black",
    timer_period_us |-> 0,
    timer_enabled |-> FALSE,
    consent_led |-> 0 ]

\* ---- Strobe timer (main.ino 92-104) --------------------------------------
\* (uint64_t)(1000000.0 / hz) for hz in tenths of a hertz.  0.1f is
\* 0.100000001..., so the quotient for 0.1 Hz truncates to 9999999.
PeriodUs(hz) == IF hz = 1 THEN 9999999 ELSE 10000000 \div hz

\* onStrobeTimer's condition for raising strobe_pulse.
TimerRaisesPulse(st) ==
  st.active /\ st.strobe_hz > 0 /\ st.strobe_hz <= STROBE_MAX_HZ

\* The rate, in tenths of a hertz, at which onStrobeTimer raises
\* strobe_pulse: that of the programmed alarm when the interrupt's condition
\* holds, none otherwise.
AppliedHz(st, h) ==
  IF h.timer_enabled /\ TimerRaisesPulse(st)
  THEN 10000000 \div h.timer_period_us
  ELSE 0

\* A loop() that pulses on every iteration, flag or no flag.
PulseDue_unflagged(flag) == TRUE

\* if (strobe_pulse), the test of loop() (main.ino 309).
PulseDue(flag) == flag

\* setStrobeFrequency(hz): hz <= 0 writes duty 0 to the strobe channel and
\* leaves the timer as it is; otherwise the alarm is programmed with the
\* period of the capped frequency and enabled.
setStrobeFrequency(h, hz) ==
  IF hz <= 0
  THEN [h EXCEPT !.ledc[STROBE_CH] = 0]
  ELSE [h EXCEPT !.timer_period_us = PeriodUs(min(hz, STROBE_MAX_HZ)),
                 !.timer_enabled = TRUE]

\* ---- Motor control (main.ino 107-113) ------------------------------------
\* (int)(abs(rpm) / 15.0 * 255.0), constrained to 0..255.
MotorDuty(rpm) == constrain((abs(rpm) * 255) \div 1500, 0, 255)

setMotorRPM(h, pwm_pin, dir_pin, rpm) ==
  [h EXCEPT !.dir[dir_pin] = IF rpm >= 0 THEN "HIGH" ELSE "LOW",
            !.ledc[pwm_pin] = MotorDuty(rpm)]

\* ---- Apply state to hardware (main.ino 116-147) --------------------------
\* unsigned long elapsed = (millis() - state.session_start) / 1000
Elapsed(st, t) == (t - st.session_start) \div 1000

\* The cutoff placed after the fade window instead of at its end.
SessionExpired_late(elapsed) == elapsed > SESSION_MAX_S + FADE_OUT_S

\* elapsed > SESSION_MAX_S
SessionExpired(elapsed) == elapsed > SESSION_MAX_S

\* No fade-out: brightness stays led_bright to the end of the session.
Brightness_nofade(st, t) == st.led_bright * FADE_OUT_S

\* brightness after the fade-out logic, as a numerator over
\* 100 * FADE_OUT_S: led_bright, times 1 - fade_progress inside the window.
\* The float product (int)(x * brightness) equals Scaled(x, ...) at every
\* elapsed time except 580, 595-597, 604, 605, 612, 619, 620, 627, 628,
\* 634-636, 642-644, 649-652 and 657-659 s, where rounding of
\* fade_progress makes the float result one less for some x; ClockValues
\* reaches none of these.
Brightness(st, t) ==
  IF st.session_start > 0 /\ Elapsed(st, t) > SESSION_MAX_S - FADE_OUT_S
  THEN st.led_bright * (FADE_OUT_S - (Elapsed(st, t) - (SESSION_MAX_S - FADE_OUT_S)))
  ELSE st.led_bright * FADE_OUT_S

Scaled(x, brightness) == (x * brightness) \div (100 * FADE_OUT_S)

\* The !state.active branch: motors to 0, setStrobeFrequency(0), the strip
\* filled black and shown.
applyInactive(h) ==
  LET h1 == setMotorRPM(h, MOTOR1_PWM, MOTOR1_DIR, 0)
      h2 == setMotorRPM(h1, MOTOR2_PWM, MOTOR2_DIR, 0)
      h3 == setMotorRPM(h2, MOTOR3_PWM, MOTOR3_DIR, 0)
      h4 == setStrobeFrequency(h3, 0)
  IN  [h4 EXCEPT !.leds = "Black"]

\* The fade applied to the motors as well as to the lights.
applyActive_fadeall(st, h, t) ==
  LET b  == Brightness(st, t)
      h1 == setMotorRPM(h, MOTOR1_PWM, MOTOR1_DIR, Scaled(st.disk1_rpm, b))
      h2 == setMotorRPM(h1, MOTOR2_PWM, MOTOR2_DIR, -Scaled(st.disk2_rpm, b))
      h3 == setMotorRPM(h2, MOTOR3_PWM, MOTOR3_DIR, Scaled(st.disk3_rpm, b))
      h4 == setStrobeFrequency(h3, min(st.strobe_hz, STROBE_MAX_HZ))
  IN  [h4 EXCEPT !.ledc[SPOT_R_PIN] = Scaled(st.spot_r, b),
                 !.ledc[SPOT_G_PIN] = Scaled(st.spot_g, b),
                 !.ledc[SPOT_B_PIN] = Scaled(st.spot_b, b),
                 !.fastled_brightness = Scaled(255, b)]

\* The writes after the fade-out logic (main.ino 139-146).
applyActive(st, h, t) ==
  LET b  == Brightness(st, t)
      h1 == setMotorRPM(h, MOTOR1_PWM, MOTOR1_DIR, st.disk1_rpm)
      h2 == setMotorRPM(h1, MOTOR2_PWM, MOTOR2_DIR, -st.disk2_rpm)
      h3 == setMotorRPM(h2, MOTOR3_PWM, MOTOR3_DIR, st.disk3_rpm)
      h4 == setStrobeFrequency(h3, min(st.strobe_hz, STROBE_MAX_HZ))
  IN  [h4 EXCEPT !.ledc[SPOT_R_PIN] = Scaled(st.spot_r, b),
                 !.ledc[SPOT_G_PIN] = Scaled(st.spot_g, b),
                 !.ledc[SPOT_B_PIN] = Scaled(st.spot_b, b),
                 !.fastled_brightness = Scaled(255, b)]

\* applyState() at time t: the new MachineState and peripherals.
applyState(st, h, t) ==
  IF ~st.active
  THEN [state |-> st, hw |-> applyInactive(h)]
  ELSE IF st.session_start > 0 /\ SessionExpired(Elapsed(st, t))
       THEN [state |-> [st EXCEPT !.active = FALSE], hw |-> h]
       ELSE [state |-> st, hw |-> applyActive(st, h, t)]

\* ---- Built-in presets (main.ino 150-173) ---------------------------------
PresetFields(st, d1, d2, d3, hz, int, r, g, b) ==
  [st EXCEPT !.disk1_rpm = d1, !.disk2_rpm = d2, !.disk3_rpm = d3,
             !.strobe_hz = hz, !.strobe_int = int,
             !.spot_r = r, !.spot_g = g, !.spot_b = b]

\* The names loadPreset has a branch for.
KnownPresets == {"alpha_bloom", "theta_dive", "oceanic", "gamma_flash", "integration"}

\* A loadPreset that falls back to alpha_bloom's values for a name it does
\* not know.
loadPreset_fallback(st, name) ==
  PresetFields([st EXCEPT !.preset_name = name], 1000, 1060, 200, 5, 60, 0, 80, 120)

loadPreset(st, name) ==
  LET s == [st EXCEPT !.preset_name = name]
  IN  IF name = "alpha_bloom" THEN PresetFields(s, 1000, 1060, 200, 5, 60, 0, 80, 120)
      ELSE IF name = "theta_dive" THEN PresetFields(s, 600, 635, 150, 3, 70, 40, 0, 120)
      ELSE IF name = "oceanic" THEN PresetFields(s, 400, 420, 100, 1, 40, 0, 20, 100)
      ELSE IF name = "gamma_flash" THEN PresetFields(s, 1200, 1270, 300, 30, 100, 200, 200, 200)
      ELSE IF name = "integration" THEN PresetFields(s, 700, 740, 200, 0, 0, 100, 60, 10)
      ELSE s

\* ---- Consent gate (main.ino 221-241) -------------------------------------
\* The hold taken as complete one poll early.
HoldComplete_early(held) == held >= CONSENT_HOLD_MS - POLL_MS

\* held >= 3000
HoldComplete(held) == held >= CONSENT_HOLD_MS

\* The instants, counted from press_start, at which the while loop reads
\* the button: every POLL_MS milliseconds (delay(20)).
PollTimes == {k * POLL_MS : k \in 0..((CONSENT_HOLD_MS \div POLL_MS) + 1)}

\* The while loop, entered with the button LOW for `hold` ms: `held` is
\* millis() - press_start at a poll.  The loop ends at the first poll that
\* reads HIGH (held > hold), not activated, or at the first poll that still
\* reads LOW with the hold complete, activated.
HoldLoop(hold) ==
  LET exits == {p \in PollTimes : p > hold \/ HoldComplete(p)}
      held  == CHOOSE p \in exits : \A q \in exits : p <= q
  IN  [activated |-> held <= hold, held |-> held]

\* A default name that no branch of loadPreset knows.
DefaultPreset_unknown == "alpha"

\* The name checkConsentButton passes to loadPreset.
DefaultPreset == "alpha_bloom"

\* checkConsentButton() at time t with the button LOW for `hold` ms
\* (0: the button reads HIGH): the new MachineState, peripherals and clock.
\* Of the writes to the consent LED the last one stays: 255 on activation,
\* 0 on an early release.
checkConsentButton(st, h, t, hold) ==
  IF hold = 0
  THEN [state |-> st, hw |-> h, now |-> t]
  ELSE LET r == HoldLoop(hold)
       IN  IF r.activated
           THEN [state |-> loadPreset([st EXCEPT !.active = TRUE,
                                                 !.consent = TRUE,
                                                 !.session_start = t + r.held],
                                      DefaultPreset),
                 hw |-> [h EXCEPT !.consent_led = 255],
                 now |-> t + r.held]
           ELSE [state |-> st,
                 hw |-> [h EXCEPT !.consent_led = 0],
                 now |-> t + r.held]

\* ---- Emergency stop (main.ino 244-252) -----------------------------------
\* digitalRead(ENC1_BTN) == LOW && digitalRead(ENC2_BTN) == LOW
StopAsserted(e) == e[1] = "LOW" /\ e[2] = "LOW"

\* The body of the if: active and consent cleared, then applyState().
emergencyStop(st, h, t) ==
  applyState([st EXCEPT !.active = FALSE, !.consent = FALSE], h, t)

\* ---- Web handlers (main.ino 178-215) -------------------------------------
\* String name = doc["name"] | "alpha_bloom"
RequestedName(body) == IF body = NoName THEN "alpha_bloom" ELSE body

\* A preset request that also starts the installation.
RequestedPresetState_activating(st, body) ==
  [loadPreset(st, RequestedName(body)) EXCEPT !.active = TRUE]

\* POST /preset with a body: loadPreset(name).
RequestedPresetState(st, body) == loadPreset(st, RequestedName(body))

\* POST /stop: active cleared, then applyState().
requestStop(st, h, t) == applyState([st EXCEPT !.active = FALSE], h, t)

\* ---- The state machine ---------------------------------------------------
EncInputs == {<<"HIGH", "HIGH">>, <<"LOW", "HIGH">>, <<"LOW", "LOW">>}

\* After setup(): loop() is about to run for the first time, the clock
\* taken as 0.
Init ==
  /\ state = MachineState0
  /\ strobe_pulse = FALSE
  /\ hw = Hardware0
  /\ response = "none"
  /\ now = 0
  /\ pc = "handleClient"
  /\ enc = <<"HIGH", "HIGH">>
  /\ short_presses = 0
  /\ active_since = 0

\* The hardware timer fires (once its alarm is enabled, at any point of
\* loop()): onStrobeTimer.
OnStrobeTimer ==
  /\ hw.timer_enabled
  /\ strobe_pulse' = IF TimerRaisesPulse(state) THEN TRUE ELSE strobe_pulse
  /\ UNCHANGED <<state, hw, response, now, pc, enc, short_presses, active_since>>

\* The encoder buttons are pressed or released.  Nothing reads them between
\* checkEmergencyStop and the next iteration, so a change there is taken as
\* a change at the start of that iteration.
SetEncoders ==
  /\ pc \in {"handleClient", "checkConsentButton", "checkEmergencyStop"}
  /\ \E e \in EncInputs : e # enc /\ enc' = e
  /\ UNCHANGED <<state, strobe_pulse, hw, response, now, pc, short_presses,
                 active_since>>

\* server.handleClient() with no request pending.
NoRequest ==
  /\ pc = "handleClient"
  /\ response' = "none"
  /\ pc' = "checkConsentButton"
  /\ UNCHANGED <<state, strobe_pulse, hw, now, enc, short_presses, active_since>>

\* GET /: the status JSON.
GetStatus ==
  /\ pc = "handleClient"
  /\ response' = "200 status"
  /\ pc' = "checkConsentButton"
  /\ UNCHANGED <<state, strobe_pulse, hw, now, enc, short_presses, active_since>>

\* POST /preset with a body.
PostPreset ==
  /\ pc = "handleClient"
  /\ \E body \in PresetBodies : state' = RequestedPresetState(state, body)
  /\ response' = "200 ok"
  /\ pc' = "checkConsentButton"
  /\ UNCHANGED <<strobe_pulse, hw, now, enc, short_presses, active_since>>

\* POST /preset without a body.
PostPresetNoBody ==
  /\ pc = "handleClient"
  /\ response' = "400 no body"
  /\ pc' = "checkConsentButton"
  /\ UNCHANGED <<state, strobe_pulse, hw, now, enc, short_presses, active_since>>

\* POST /script: the keyframe engine is a placeholder.
PostScript ==
  /\ pc = "handleClient"
  /\ response' = "200 script queued"
  /\ pc' = "checkConsentButton"
  /\ UNCHANGED <<state, strobe_pulse, hw, now, enc, short_presses, active_since>>

\* POST /stop.
PostStop ==
  /\ pc = "handleClient"
  /\ LET r == requestStop(state, hw, now)
     IN  state' = r.state /\ hw' = r.hw
  /\ response' = "200 ok"
  /\ pc' = "checkConsentButton"
  /\ UNCHANGED <<strobe_pulse, now, enc, short_presses, active_since>>

\* checkConsentButton(), blocking for as long as the button is held.
CheckConsentButton ==
  /\ pc = "checkConsentButton"
  /\ \E hold \in {0} \cup HoldMs :
       /\ (0 < hold /\ hold < CONSENT_HOLD_MS) => short_presses < MaxShortPresses
       /\ now + hold + POLL_MS <= MaxNow
       /\ LET r == checkConsentButton(state, hw, now, hold)
          IN  /\ state' = r.state
              /\ hw' = r.hw
              /\ now' = r.now
              /\ active_since' = IF ~state.active /\ r.state.active
                                 THEN r.now ELSE active_since
       /\ short_presses' = IF hold = 0 THEN short_presses
                           ELSE IF hold < CONSENT_HOLD_MS THEN short_presses + 1
                           ELSE 0
  /\ response' = "none"
  /\ pc' = "checkEmergencyStop"
  /\ UNCHANGED <<strobe_pulse, enc>>

\* checkEmergencyStop(); the debounce loop returns once both buttons are
\* released.
CheckEmergencyStop ==
  /\ pc = "checkEmergencyStop"
  /\ IF StopAsserted(enc)
     THEN \E d \in DebounceMs :
            /\ now + d <= MaxNow
            /\ LET r == emergencyStop(state, hw, now)
               IN  state' = r.state /\ hw' = r.hw
            /\ now' = now + d
            /\ enc' = <<"HIGH", "HIGH">>
     ELSE UNCHANGED <<state, hw, now, enc>>
  /\ pc' = "strobe"
  /\ UNCHANGED <<strobe_pulse, response, short_presses, active_since>>

\* if (strobe_pulse) { strobe_pulse = false; ledcWrite(0, duty); ...
\* An interrupt between the test and the assignment would set a flag that
\* is already set: the two are taken as one step.
StrobePulse ==
  /\ pc = "strobe"
  /\ IF PulseDue(strobe_pulse)
     THEN /\ strobe_pulse' = FALSE
          /\ hw' = [hw EXCEPT !.ledc[STROBE_CH] = (state.strobe_int * 255) \div 100]
          /\ pc' = "pulse"
     ELSE /\ pc' = "applyState"
          /\ UNCHANGED <<strobe_pulse, hw>>
  /\ UNCHANGED <<state, response, now, enc, short_presses, active_since>>

\* ... delay(10); ledcWrite(0, 0); }
PulseEnd ==
  /\ pc = "pulse"
  /\ now + PULSE_MS <= MaxNow
  /\ now' = now + PULSE_MS
  /\ hw' = [hw EXCEPT !.ledc[STROBE_CH] = 0]
  /\ pc' = "applyState"
  /\ UNCHANGED <<state, strobe_pulse, response, enc, short_presses, active_since>>

\* applyState() at the end of loop().
ApplyState ==
  /\ pc = "applyState"
  /\ LET r == applyState(state, hw, now)
     IN  state' = r.state /\ hw' = r.hw
  /\ pc' = "delay"
  /\ UNCHANGED <<strobe_pulse, response, now, enc, short_presses, active_since>>

\* delay(20), then loop() is entered again: the clock reads one of
\* ClockValues, at least LOOP_DELAY_MS later.  The iterations that a real
\* run makes in between, with no button pressed and no request, are left
\* out; none of them may be one whose applyState would have changed
\* MachineState (the session cutoff is never jumped over).
Delay ==
  /\ pc = "delay"
  /\ \E t \in ClockValues :
       /\ t >= now + LOOP_DELAY_MS
       /\ t <= MaxNow
       /\ \A u \in ClockValues :
            (now < u /\ u < t) => applyState(state, hw, u).state = state
       /\ now' = t
  /\ pc' = "handleClient"
  /\ UNCHANGED <<state, strobe_pulse, hw, response, enc, short_presses, active_since>>

Next ==
  \/ OnStrobeTimer
  \/ SetEncoders
  \/ NoRequest
  \/ GetStatus
  \/ PostPreset
  \/ PostPresetNoBody
  \/ PostScript
  \/ PostStop
  \/ CheckConsentButton
  \/ CheckEmergencyStop
  \/ StrobePulse
  \/ PulseEnd
  \/ ApplyState
  \/ Delay

Spec == Init /\ [][Next]_vars

\* The same machine started from an arbitrary requested strobe frequency,
\* active or not: the strobe controller as a function of MachineState.
InitAnyState ==
  /\ state \in {[MachineState0 EXCEPT !.strobe_hz = f, !.strobe_int = 100,
                                      !.active = a] :
                  f \in HzInputs, a \in BOOLEAN}
  /\ strobe_pulse = FALSE
  /\ hw = Hardware0
  /\ response = "none"
  /\ now = 0
  /\ pc = "handleClient"
  /\ enc = <<"HIGH", "HIGH">>
  /\ short_presses = 0
  /\ active_since = 0

SpecAnyState == InitAnyState /\ [][Next]_vars

\* ---- applyState as a function of the elapsed session time ----------------
\* The elapsed seconds at which the float product (int)(x * brightness)
\* is one less than Scaled gives for some spotlight value of a preset (see
\* Brightness).
FloatInexactElapsed ==
  {580, 604, 605, 612, 619, 620, 627, 628} \cup (595..597) \cup (634..636)
    \cup (642..644) \cup (649..652) \cup (657..659)

\* The whole seconds of a session at which applyState is evaluated.
FadeElapsed == (0..SESSION_MAX_S) \ FloatInexactElapsed

\* millis() - session_start at those evaluations: half a second into each
\* second of FadeElapsed, and the first instant of second 661.
FadeInstants ==
  {1000 * e + 500 : e \in FadeElapsed} \cup {1000 * (SESSION_MAX_S + 1)}

\* A session started by a hold completed at CONSENT_HOLD_MS, with any
\* built-in preset loaded, and loop() about to call applyState; the
\* peripherals are as the iteration before, LOOP_DELAY_MS earlier, left them.
InitFade ==
  /\ state \in {loadPreset([MachineState0 EXCEPT !.active = TRUE,
                                                  !.consent = TRUE,
                                                  !.session_start = CONSENT_HOLD_MS],
                            p) : p \in KnownPresets}
  /\ now \in {state.session_start + i : i \in FadeInstants}
  /\ hw = applyState(state, Hardware0, now - LOOP_DELAY_MS).hw
  /\ strobe_pulse = FALSE
  /\ response = "none"
  /\ pc = "applyState"
  /\ enc = <<"HIGH", "HIGH">>
  /\ short_presses = 0
  /\ active_since = state.session_start

NextFade == ApplyState

SpecFade == InitFade /\ [][NextFade]_vars

\* ---- Properties -----------------------------------------------------------
\* Every LEDC duty the firmware has written is 0 and the LED strip emits
\* nothing (its pixels are black or its brightness is 0).
AllOutputsOff(h) ==
  /\ \A c \in LedcArgs : h.ledc[c] = 0
  /\ (h.leds = "Black" \/ h.fastled_brightness = 0)

\* C1: whatever strobe_hz MachineState stores (negative, above the ceiling),
\* the strobe timer, once programmed, has a period of at least
\* 1 / STROBE_MAX_HZ (250000 us), and the strobe output is driven high only
\* inside the main loop's pulse, which takes one flag raised by that timer:
\* the applied pulse rate lies between 0 and STROBE_MAX_HZ.
C1_StrobeWithinCap ==
  /\ hw.timer_enabled =>
       /\ hw.timer_period_us > 0
       /\ hw.timer_period_us * STROBE_MAX_HZ >= 10000000
  /\ hw.ledc[STROBE_CH] > 0 => pc = "pulse"
  /\ strobe_pulse => hw.timer_enabled

\* Active with a requested 1e8 Hz, and the timer programmed at the ceiling.
C1_Witness ==
  /\ state.active
  /\ state.strobe_hz = 1000000000
  /\ hw.timer_enabled
  /\ hw.timer_period_us = 250000

\* C2: at the end of every loop iteration in which active is false, every
\* emitted actuator value is zero.
C2_InactiveOutputsZero ==
  (pc = "delay" /\ ~state.active) => AllOutputsOff(hw)

\* C3: when checkEmergencyStop finds both encoder buttons pressed, every
\* output channel is off once it has run.
C3_StopTickAllOff ==
  [][(pc = "checkEmergencyStop" /\ pc' = "strobe" /\ StopAsserted(enc))
       => AllOutputsOff(hw')]_vars

\* C4: in an iteration where both encoder buttons are pressed, nothing takes
\* effect before the stop is evaluated: until checkEmergencyStop runs no
\* step changes MachineState or an output, and none blocks the loop.
C4_StopEvaluatedFirst ==
  [][(StopAsserted(enc) /\ pc \in {"handleClient", "checkConsentButton"})
       => (state' = state /\ hw' = hw /\ now' = now)]_vars

\* C5 as stated: applyState evaluated while active with now - session_start
\* above SESSION_MAX_S seconds leaves active false.
C5_CutoffAboveMax ==
  [][(pc = "applyState" /\ pc' = "delay" /\ state.active
        /\ now - state.session_start > SESSION_MAX_S * 1000)
       => ~state'.active]_vars

\* C5 amended: applyState evaluated while active with a session_start other
\* than 0 and with the whole seconds elapsed, (now - session_start) / 1000
\* rounded down, above SESSION_MAX_S leaves active false.
C5_CutoffWholeSeconds ==
  [][(pc = "applyState" /\ pc' = "delay" /\ state.active
        /\ state.session_start > 0
        /\ (now - state.session_start) \div 1000 > SESSION_MAX_S)
       => ~state'.active]_vars

\* The end of the iteration 661 s after the session started: deactivated by
\* the cutoff (the motors still hold the duty of the tick before).
C5_Witness ==
  /\ pc = "delay"
  /\ ~state.active
  /\ now - state.session_start = 661000
  /\ hw.ledc[MOTOR1_PWM] > 0

\* C6: at the end of every loop iteration, the time for which the
\* installation has been continuously active is at most SESSION_MAX_S.
C6_ActiveTimeBounded ==
  (pc = "delay" /\ state.active) =>
    (now - active_since) \div 1000 <= SESSION_MAX_S

\* C7: active goes from false to true only in checkConsentButton, by a hold
\* of at least CONSENT_HOLD_MS measured from the start of that call.
C7_OnlyFreshHoldActivates ==
  [][(~state.active /\ state'.active)
       => (pc = "checkConsentButton" /\ now' - now >= CONSENT_HOLD_MS)]_vars

\* Reactivated by a hold that has just completed, after an earlier session
\* (which programmed the strobe timer) had been deactivated.
C7_Witness ==
  /\ pc = "checkEmergencyStop"
  /\ state.active
  /\ active_since = now
  /\ hw.timer_enabled

\* C8: a consent press released before CONSENT_HOLD_MS leaves MachineState
\* unchanged (active stays false), however many such presses came before.
C8_ShortPressNoEffect ==
  [][(short_presses' = short_presses + 1) => state' = state]_vars

\* Two presses of 2999 ms in a row, 5998 ms in all, and MachineState is as
\* setup() left it.
C8_Witness ==
  /\ short_presses = 2
  /\ state = MachineState0

\* C9: a hold that completes while inactive leaves active and consent true,
\* session_start at the current time and the fields of preset alpha_bloom.
C9_ActivationState ==
  [][(pc = "checkConsentButton" /\ pc' = "checkEmergencyStop"
        /\ ~state.active /\ state'.active)
       => /\ state'.consent
          /\ state'.session_start = now'
          /\ state'.preset_name = "alpha_bloom"
          /\ state'.disk1_rpm = 1000
          /\ state'.disk2_rpm = 1060
          /\ state'.disk3_rpm = 200
          /\ state'.strobe_hz = 5
          /\ state'.strobe_int = 60
          /\ <<state'.spot_r, state'.spot_g, state'.spot_b>> = <<0, 80, 120>>]_vars

\* Just activated by a hold, over a MachineState that held another preset.
C9_Witness ==
  /\ pc = "checkEmergencyStop"
  /\ state.active
  /\ active_since = now
  /\ state.session_start = now
  /\ state.preset_name = "alpha_bloom"
  /\ hw.ledc[SPOT_R_PIN] > 0

\* C10: while active, a call of checkConsentButton leaves MachineState as it
\* was, however long the button is held.
C10_HoldWhileActiveNoEffect ==
  [][(pc = "checkConsentButton" /\ pc' = "checkEmergencyStop" /\ state.active)
       => state' = state]_vars

\* C11: session_start is set only while active is true (every deactivation
\* clears it).
C11_SessionStartOnlyWhileActive ==
  ~state.active => state.session_start = 0

\* C12: a POST /stop that deactivates leaves the MachineState and the
\* outputs that an emergency stop performed in the same state would leave,
\* all outputs off.
C12_StopRequestAsEmergencyStop ==
  [][(pc = "handleClient" /\ pc' = "checkConsentButton"
        /\ state.active /\ ~state'.active)
       => /\ state' = emergencyStop(state, hw, now).state
          /\ hw' = emergencyStop(state, hw, now).hw
          /\ AllOutputsOff(hw')]_vars

\* The fields of MachineState a preset sets.
PresetValues(st) ==
  <<st.disk1_rpm, st.disk2_rpm, st.disk3_rpm, st.strobe_hz, st.strobe_int,
    st.spot_r, st.spot_g, st.spot_b>>

\* C13: a request handled by server.handleClient() that leaves an unknown
\* preset name in MachineState leaves the three disk speeds, the strobe
\* frequency and intensity and the spotlight colour as they were.
C13_UnknownPresetKeepsValues ==
  [][(pc = "handleClient" /\ state'.preset_name \notin KnownPresets)
       => PresetValues(state') = PresetValues(state)]_vars

\* POST /preset {"name":"warp_nine"} has just been answered, over the
\* values of gamma_flash.
C13_Witness ==
  /\ pc = "checkConsentButton"
  /\ response = "200 ok"
  /\ state.preset_name = "warp_nine"
  /\ PresetValues(state) = <<1200, 1270, 300, 30, 100, 200, 200, 200>>

\* C14: an unknown preset name is refused and leaves the whole of
\* MachineState as it was, so preset_name is always the sentinel or the name
\* of a preset of the library, the last one applied.
C14_PresetNameIsApplied ==
  state.preset_name \in KnownPresets \cup {"idle", "custom"}

\* C15: at the end of every loop iteration in which active is true, the
\* strobe pulses at min(max(strobe_hz, 0), STROBE_MAX_HZ): 3.0 Hz for a
\* requested 3.0 Hz, the ceiling for a requested 9.0 Hz.
C15_AppliedIsClamped ==
  (pc = "delay" /\ state.active) =>
    AppliedHz(state, hw) =
      (IF state.strobe_hz < 0 THEN 0
       ELSE IF state.strobe_hz > STROBE_MAX_HZ THEN STROBE_MAX_HZ
       ELSE state.strobe_hz)

\* C16 as stated, elapsed being now - session_start: the fade multiplier
\* applyState has just used in an active session, brightness / led_bright (Brightness is its numerator
\* over 100 * FADE_OUT_S), is 1 up to SESSION_MAX_S - FADE_OUT_S, is
\* 1 - (elapsed - (SESSION_MAX_S - FADE_OUT_S)) / FADE_OUT_S in the window,
\* does not increase, is 0.5 at 600 s and 0 at SESSION_MAX_S.
C16_FadeOfElapsedTime ==
  (pc = "delay" /\ state.active /\ state.session_start > 0) =>
    LET ms == now - state.session_start
        b == Brightness(state, now)
        one == state.led_bright * FADE_OUT_S
    IN  /\ ms <= (SESSION_MAX_S - FADE_OUT_S) * 1000 => b = one
        /\ ((SESSION_MAX_S - FADE_OUT_S) * 1000 < ms /\ ms <= SESSION_MAX_S * 1000) =>
             b * FADE_OUT_S * 1000 =
               one * (FADE_OUT_S * 1000 - (ms - (SESSION_MAX_S - FADE_OUT_S) * 1000))
        /\ ms < SESSION_MAX_S * 1000 => Brightness(state, now + 1000) <= b
        /\ ms = 600000 => 2 * b = one
        /\ ms = SESSION_MAX_S * 1000 => b = 0

\* C16 amended, elapsed being the whole seconds (now - session_start) / 1000
\* rounded down: the multiplier applyState has just used is 1 up to
\* SESSION_MAX_S - FADE_OUT_S seconds, is
\* 1 - (elapsed - (SESSION_MAX_S - FADE_OUT_S)) / FADE_OUT_S in the window,
\* does not increase from one second to the next, is 0.5 at 600 s and 0 at
\* 660 s; the LED brightness applyState writes is 255, 127 and 0 there.
C16_FadeOfWholeSeconds ==
  (pc = "delay" /\ state.active /\ state.session_start > 0) =>
    LET e == Elapsed(state, now)
        b == Brightness(state, now)
        one == state.led_bright * FADE_OUT_S
    IN  /\ e <= SESSION_MAX_S - FADE_OUT_S => b = one
        /\ (SESSION_MAX_S - FADE_OUT_S < e /\ e <= SESSION_MAX_S) =>
             b * FADE_OUT_S = one * (FADE_OUT_S - (e - (SESSION_MAX_S - FADE_OUT_S)))
        /\ e < SESSION_MAX_S => Brightness(state, now + 1000) <= b
        /\ e = 600 => 2 * b = one
        /\ e = SESSION_MAX_S => b = 0
        /\ e <= SESSION_MAX_S - FADE_OUT_S => hw.fastled_brightness = 255
        /\ e = 600 => hw.fastled_brightness = 127
        /\ e = SESSION_MAX_S =>
             /\ hw.fastled_brightness = 0
             /\ hw.ledc[SPOT_G_PIN] = 0

\* applyState has run 600 s into a gamma_flash session: half brightness.
C16_Witness ==
  /\ pc = "delay"
  /\ state.active
  /\ state.preset_name = "gamma_flash"
  /\ Elapsed(state, now) = 600
  /\ hw.fastled_brightness = 127
  /\ hw.ledc[SPOT_G_PIN] = 100

\* C17: the call of applyState in which the session timer deactivates
\* leaves every output off.
C17_CutoffTickAllOff ==
  [][(pc = "applyState" /\ pc' = "delay" /\ state.active /\ ~state'.active)
       => AllOutputsOff(hw')]_vars

\* C18: after applyState in an active session, whatever the fade
\* multiplier, the motor duties are those of the stored disk speeds, disks
\* 1 and 3 run forward and disk 2 backward, and the strobe timer has the
\* period of the stored frequency: all as at the start of the session.
C18_FadeOnlyOnBrightness ==
  (pc = "delay" /\ state.active) =>
    LET unfaded == applyActive(state, hw, state.session_start)
    IN  /\ hw.ledc[MOTOR1_PWM] = MotorDuty(state.disk1_rpm)
        /\ hw.ledc[MOTOR2_PWM] = MotorDuty(state.disk2_rpm)
        /\ hw.ledc[MOTOR3_PWM] = MotorDuty(state.disk3_rpm)
        /\ hw.dir[MOTOR1_DIR] = "HIGH"
        /\ hw.dir[MOTOR2_DIR] = (IF state.disk2_rpm > 0 THEN "LOW" ELSE "HIGH")
        /\ hw.dir[MOTOR3_DIR] = "HIGH"
        /\ \A pin \in {MOTOR1_PWM, MOTOR2_PWM, MOTOR3_PWM} :
             hw.ledc[pin] = unfaded.ledc[pin]
        /\ hw.dir = unfaded.dir
        /\ hw.timer_enabled = unfaded.timer_enabled
        /\ hw.timer_period_us = unfaded.timer_period_us
        /\ state.strobe_hz > 0 =>
             hw.timer_period_us = PeriodUs(state.strobe_hz)

\* applyState has run 600 s into an alpha_bloom session: the lights at half
\* brightness, the motors and the strobe timer as at full brightness.
C18_Witness ==
  /\ pc = "delay"
  /\ state.active
  /\ Elapsed(state, now) = 600
  /\ hw.fastled_brightness = 127
  /\ hw.ledc[SPOT_G_PIN] = 40
  /\ hw.ledc[MOTOR1_PWM] = 170
  /\ hw.ledc[MOTOR2_PWM] = 180
  /\ hw.dir[MOTOR2_DIR] = "LOW"
  /\ hw.timer_period_us = 2000000

\* C19: strobe_pulse is set only by a firing of the strobe timer, which
\* touches nothing else; it is cleared only by loop()'s test, in the step
\* that observes it; and loop() starts a pulse only in that step.  Every
\* pulse so consumes a flag setting of its own, and the pulses emitted never
\* outnumber the timer firings.
C19_FlagHandoff ==
  [][/\ (~strobe_pulse /\ strobe_pulse') =>
          /\ hw.timer_enabled
          /\ UNCHANGED <<state, hw, response, now, pc, enc>>
     /\ (strobe_pulse /\ ~strobe_pulse') => (pc = "strobe" /\ pc' = "pulse")
     /\ (pc # "pulse" /\ pc' = "pulse") =>
          /\ strobe_pulse /\ ~strobe_pulse'
          /\ pc = "strobe"
     /\ (hw.ledc[STROBE_CH] = 0 /\ hw'.ledc[STROBE_CH] > 0) =>
          (strobe_pulse /\ ~strobe_pulse')]_vars

\* A pulse is being emitted and the timer has fired again meanwhile: the
\* next flag setting waits for the next iteration.
C19_Witness ==
  /\ pc = "pulse"
  /\ hw.ledc[STROBE_CH] > 0
  /\ strobe_pulse

\* C20: the strobe output is never driven with a non-zero duty while active
\* is false.
C20_NoPulseWhileInactive ==
  hw.ledc[STROBE_CH] > 0 => state.active

====
